---- MODULE Spec2Model ----
(* OMF temperature-sensor sample (src/program.py): token cache, header      *)
(* assembly, OMF send, schema create/delete and the sampling loop of main.  *)
EXTENDS Integers, Sequences, FiniteSets, TLC

VARIABLES
  test,          \* main's parameter
  appsettings,   \* UseRandom, NumberOfIterations, DelayBetweenRequests
  endpoints,     \* appsettings["Endpoints"]: the endpoint dicts, mutated in place
  idx,           \* position of the for loop of main in endpoints
  pc,            \* position of main
  sp,            \* position inside send_message_to_omf_endpoint
  count,         \* loop counter of main
  measurement,   \* local of main
  now,           \* time.time()
  msg_headers,   \* headers returned by get_headers for the message in hand
  response,      \* response of the last OMF POST
  http,          \* the OMF POSTs issued for the endpoint in hand, in order
  calls,         \* the HTTP requests of the last get_token call, in order
  sends,         \* the calls of send_message_to_omf_endpoint for it, in order
  served,        \* the endpoints messages were sent for, in order, repeats merged
  raised,        \* exception raised by the last call main made (NoError: none)
  result         \* how main ended

vars == <<test, appsettings, endpoints, idx, pc, sp, count, measurement, now,
          msg_headers, response, http, calls, sends, served, raised, result>>

\* ---------------------------------------------------------------- bounds
MaxIterations == 2
MaxEndpoints == 2

\* ------------------------------------------------------ program constants
ERROR_STRING == "Error"
omf_version == "1.1"
ADH == "EndpointTypes.ADH"
EDS == "EndpointTypes.EDS"
PI == "EndpointTypes.PI"
TokenSkew == 300
SettleSeconds == 1

\* ------------------------------------------------------------ input sets
RawTypes == {"ADH", "EDS", "PI", "OCS"}
Delays == {400}
\* status codes of an OMF response; 0 stands for requests.post raising
Statuses == {0, 199, 200, 201, 299, 300, 400, 401, 409, 410, 500}
RunStatuses == {0, 200, 409, 500}
Texts == {"body"}
ExpiresIn == {300, 600}
Tokens == {"", "tokA", "tokB"}
RunTokens == {"tokA"}
\* seconds the requests of get_token take
Latency == {0, 2}
RunLatency == {0}

NoHeaders == [k \in {} |-> ""]
NoResponse == [status_code |-> 0, text |-> ""]
NoError == [exc |-> "", what |-> "", mtype |-> "", status |-> 0, text |-> ""]
Running == [status |-> "running", exc |-> "", cause |-> NoError]
NoCache == [has |-> FALSE, expiration |-> 0, token |-> ""]

Resource(i) == <<"https", IF i = 1 THEN "host1" ELSE IF i = 2 THEN "host2" ELSE "host3">>

RawEndpoint(i, t, sel, comp) ==
  [EndpointType |-> t, Selected |-> sel, UseCompression |-> comp,
   Resource |-> Resource(i), BaseEndpoint |-> <<>>, OmfEndpoint |-> <<>>,
   cache |-> NoCache]

\* UseCompression of the endpoints of a whole run: the default of get_appsettings
RunCompression == {TRUE}

RawEndpointLists ==
  UNION {[1..n -> RawTypes \X BOOLEAN \X RunCompression] : n \in 1..MaxEndpoints}

Init ==
  /\ test \in BOOLEAN
  /\ appsettings \in [UseRandom : BOOLEAN,
                      NumberOfIterations : 0..MaxIterations,
                      DelayBetweenRequests : Delays]
  /\ \E l \in RawEndpointLists :
       endpoints = [i \in DOMAIN l |-> RawEndpoint(i, l[i][1], l[i][2], l[i][3])]
  /\ idx = 0
  /\ pc = "appsettings"
  /\ sp = "none"
  /\ count = 0
  /\ measurement = ""
  /\ now = 0
  /\ msg_headers = NoHeaders
  /\ response = NoResponse
  /\ http = <<>>
  /\ calls = <<>>
  /\ sends = <<>>
  /\ served = <<>>
  /\ raised = NoError
  /\ result = Running

\* ------------------------------------------------------- get_appsettings
EndpointTypes(s) == "EndpointTypes." \o s

BasePath(endpoint_type, ep) ==
  IF endpoint_type = ADH
    THEN ep.Resource \o <<"api", "v1", "tenants", "tenant", "namespaces", "namespace">>
  ELSE IF endpoint_type = EDS
    THEN ep.Resource \o <<"api", "v1", "tenants", "default", "namespaces", "default">>
  ELSE ep.Resource

LoadEndpoint(ep) ==
  LET converted == IF ep.EndpointType = "OCS" THEN ep.EndpointType
                   ELSE EndpointTypes(ep.EndpointType)
      endpoint_type == IF ep.EndpointType = "OCS" THEN ADH ELSE converted
      base_endpoint == BasePath(endpoint_type, ep)
  IN [ep EXCEPT !.EndpointType = converted,
                !.BaseEndpoint = base_endpoint,
                !.OmfEndpoint = base_endpoint \o <<"omf">>]

GetAppsettings ==
  /\ pc = "appsettings"
  /\ endpoints' = [i \in DOMAIN endpoints |-> LoadEndpoint(endpoints[i])]
  /\ pc' = "for"
  /\ UNCHANGED <<test, appsettings, idx, sp, count, measurement, now,
                 msg_headers, response, http, calls, sends, served, raised, result>>

\* ------------------------------------------------------------- messages
SendPcs == {"create_type", "create_container", "create_data", "send_value",
            "delete_data", "delete_container", "delete_type"}
DeletePcs == {"delete_data", "delete_container", "delete_type"}

\* message type, action and payload of the send main is positioned at
MessageType(p) ==
  IF p \in {"create_type", "delete_type"} THEN "type"
  ELSE IF p \in {"create_container", "delete_container"} THEN "container"
  ELSE "data"

Action(p) == IF p \in DeletePcs THEN "delete" ELSE "create"

Payload(p) ==
  IF p \in {"create_type", "delete_type"} THEN "types"
  ELSE IF p \in {"create_container", "delete_container"} THEN "container"
  ELSE IF p = "send_value" THEN "value"
  ELSE "assets"

\* where main continues when the send at p returns
AfterSend(p) ==
  CASE p = "create_type" -> "create_container"
    [] p = "create_container" -> "create_data"
    [] p = "create_data" -> "settle"
    [] p = "send_value" -> "sleep"
    [] p = "delete_data" -> "delete_container"
    [] p = "delete_container" -> "delete_type"
    [] p = "delete_type" -> "for"

\* no try around the sends: every error reaches the handler of main
AfterRaiseNoCatch(p) == "except"

\* every error swallowed: main goes on as if the send had returned
AfterRaiseSwallow(p) == AfterSend(p)

\* where main continues when the send at p raises: the deletes catch and go
\* on, everything else reaches the handler of main
AfterRaise(p) == IF p \in DeletePcs THEN AfterSend(p) ELSE "except"

Err(exc, what, mtype, status, text) ==
  [exc |-> exc, what |-> what, mtype |-> mtype, status |-> status, text |-> text]

\* the message of the send at p, for endpoint i
Message(i, p) ==
  [ep |-> i, mtype |-> MessageType(p), action |-> Action(p), payload |-> Payload(p)]

\* an OMF POST: to which endpoint and URL, and the message at p
Request(i, p, url) ==
  [ep |-> i, mtype |-> MessageType(p), action |-> Action(p), payload |-> Payload(p),
   url |-> url]

\* a request to the identity service and what the answer carried
Call(kind, url, status_code, token_endpoint, access_token, expires_in) ==
  [kind |-> kind, url |-> url, status_code |-> status_code,
   token_endpoint |-> token_endpoint,
   access_token |-> access_token, expires_in |-> expires_in]

\* ------------------------------------------------------------ get_headers
\* the allow-list without the compression header
AllowListNoCompression == {"Authorization", "messagetype", "action", "messageformat",
                           "omfversion", "x-requested-with"}

AllowList == {"Authorization", "messagetype", "action", "messageformat",
              "omfversion", "x-requested-with", "compression"}

SanitizeAllowList == {"Authorization", "messagetype", "action", "messageformat",
                      "omfversion", "x-requested-with"}

Filter(headers, allowed) ==
  [k \in (DOMAIN headers) \cap allowed |-> headers[k]]

sanitize_headers(headers) == Filter(headers, SanitizeAllowList)

\* token is the value get_token returned; it is read for an ADH endpoint only
get_headers(endpoint, compression, message_type, action, token) ==
  LET keys == {"messagetype", "action", "messageformat", "omfversion"}
                \cup (IF compression = "gzip" THEN {"compression"} ELSE {})
                \cup (IF endpoint.EndpointType = ADH THEN {"Authorization"}
                      ELSE IF endpoint.EndpointType = PI THEN {"x-requested-with"}
                      ELSE {})
      assembled == [k \in keys |->
                     CASE k = "messagetype" -> message_type
                       [] k = "action" -> action
                       [] k = "messageformat" -> "JSON"
                       [] k = "omfversion" -> omf_version
                       [] k = "compression" -> "gzip"
                       [] k = "Authorization" -> "Bearer " \o token
                       [] k = "x-requested-with" -> "xmlhttprequest"]
  IN Filter(assembled, AllowList)

\* every body compressed, whatever UseCompression says
CompressionAlways(endpoint) == "gzip"

Compression(endpoint) == IF endpoint.UseCompression THEN "gzip" ELSE "none"

\* -------------------------------------------------------------- get_token
\* the five minutes of margin left out of the cache test
CacheHitNoMargin(endpoint, t) ==
  endpoint.cache.has /\ endpoint.cache.expiration - t > 0

\* the comparison of the cache test inverted
CacheHitInverted(endpoint, t) ==
  endpoint.cache.has /\ endpoint.cache.expiration - t < TokenSkew

CacheHit(endpoint, t) ==
  endpoint.cache.has /\ endpoint.cache.expiration - t > TokenSkew

\* lines 39-45 of get_token: what it returns without going to the network
\* (returns FALSE: it goes on to the identity service)
get_token(endpoint, t) ==
  IF endpoint.EndpointType # ADH THEN [returns |-> TRUE, token |-> ""]
  ELSE IF CacheHit(endpoint, t) THEN [returns |-> TRUE, token |-> endpoint.cache.token]
  ELSE [returns |-> FALSE, token |-> ""]

IsPrefix(a, b) == Len(a) <= Len(b) /\ SubSeq(b, 1, Len(a)) = a

DiscoveryUrl(endpoint) ==
  endpoint.Resource \o <<"identity", ".well-known", "openid-configuration">>

\* token_endpoint values a discovery document can carry
TokenEndpoints(endpoint) ==
  { endpoint.Resource \o <<"identity", "connect", "token">>,
    <<"http">> \o Tail(endpoint.Resource) \o <<"identity", "connect", "token">>,
    <<"https", "elsewhere", "connect", "token">> }

DiscoveryResponses(endpoint) ==
  [status_code : {199, 200, 299, 300, 404}, token_endpoint : TokenEndpoints(endpoint)]

RunDiscoveryResponses(endpoint) ==
  [status_code : {200, 404},
   token_endpoint : {endpoint.Resource \o <<"identity", "connect", "token">>}]

\* the scheme tested, the comparison with Resource left out
TokenEndpointValidSchemeOnly(endpoint, token_url) == Head(token_url) = "https"

TokenEndpointValid(endpoint, token_url) ==
  /\ Head(token_url) = "https"
  /\ IsPrefix(endpoint.Resource, token_url)

\* bodies of the token response: a grant, JSON null, a JSON object without
\* the token fields, and text that is no JSON
TokenResponses ==
  [kind : {"grant"}, access_token : Tokens, expires_in : ExpiresIn]
    \cup [kind : {"null", "no_fields", "no_json"}, access_token : {""}, expires_in : {0}]

RunTokenResponses ==
  [kind : {"grant"}, access_token : RunTokens, expires_in : ExpiresIn]

\* the expiry taken as a duration, the time of the grant not added
ExpirationNoClock(expires_in, t) == expires_in

Expiration(expires_in, t) == expires_in + t

Cached(token, t) == [has |-> TRUE, expiration |-> Expiration(token.expires_in, t), token |-> token.access_token]

\* the cache written as soon as the token response is in, before it is checked
FetchTokenCacheFirst(i, d, t, lat) ==
  LET ep == endpoints[i]
      discovery == Call("discovery", DiscoveryUrl(ep), d.status_code, d.token_endpoint, "", 0)
      post == Call("token", d.token_endpoint, 200, <<>>, t.access_token, t.expires_in)
      failed == d.status_code < 200 \/ d.status_code >= 300
                  \/ ~TokenEndpointValid(ep, d.token_endpoint) \/ t.kind # "grant"
  IN [raised |-> failed, calls |-> <<discovery, post>>, cache |-> Cached(t, now + lat),
      elapsed |-> lat, token |-> t.access_token,
      error |-> IF failed THEN Err("Exception", "Failed to retrieve Token", "", 0, "")
                ELSE NoError]

\* the part of get_token that goes to the network; d and t are the responses
\* of the identity service, lat the seconds the two requests take
FetchToken(i, d, t, lat) ==
  LET ep == endpoints[i]
      discovery == Call("discovery", DiscoveryUrl(ep), d.status_code, d.token_endpoint, "", 0)
      post == Call("token", d.token_endpoint, 200, <<>>, t.access_token, t.expires_in)
  IN IF d.status_code < 200 \/ d.status_code >= 300
       THEN [raised |-> TRUE, calls |-> <<discovery>>, cache |-> ep.cache,
             elapsed |-> 0, token |-> "",
             error |-> Err("Exception", "Failed to get access token endpoint from discovery URL",
                           "", d.status_code, "")]
     ELSE IF ~TokenEndpointValid(ep, d.token_endpoint)
       THEN [raised |-> TRUE, calls |-> <<discovery>>, cache |-> ep.cache,
             elapsed |-> 0, token |-> "",
             error |-> Err("AssertionError", "", "", 0, "")]
     ELSE IF t.kind = "no_json"
       THEN [raised |-> TRUE, calls |-> <<discovery, post>>, cache |-> ep.cache,
             elapsed |-> lat, token |-> "",
             error |-> Err("JSONDecodeError", "", "", 0, "")]
     ELSE IF t.kind = "null"
       THEN [raised |-> TRUE, calls |-> <<discovery, post>>, cache |-> ep.cache,
             elapsed |-> lat, token |-> "",
             error |-> Err("Exception", "Failed to retrieve Token", "", 0, "")]
     ELSE IF t.kind = "no_fields"
       THEN [raised |-> TRUE, calls |-> <<discovery, post>>, cache |-> ep.cache,
             elapsed |-> lat, token |-> "",
             error |-> Err("KeyError", "expires_in", "", 0, "")]
     ELSE [raised |-> FALSE, calls |-> <<discovery, post>>,
           cache |-> Cached(t, now + lat),
           elapsed |-> lat, token |-> t.access_token, error |-> NoError]

\* ------------------------------------------- send_message_to_omf_endpoint
\* lines 89-98 and get_headers up to its call of get_token
BeginSend ==
  /\ pc \in SendPcs
  /\ sp = "none"
  /\ LET ep == endpoints[idx]
     IN IF ep.EndpointType = ADH
          THEN /\ sp' = "get_token"
               /\ msg_headers' = NoHeaders
          ELSE /\ sp' = "post"
               /\ msg_headers' = get_headers(ep, Compression(ep), MessageType(pc), Action(pc), "")
  /\ response' = NoResponse
  /\ raised' = NoError
  /\ calls' = <<>>
  /\ sends' = Append(sends, Message(idx, pc))
  /\ served' = IF served # <<>> /\ served[Len(served)] = idx THEN served
               ELSE Append(served, idx)
  /\ UNCHANGED <<test, appsettings, endpoints, idx, pc, count, measurement, now,
                 http, result>>

\* get_token returns the cached token; get_headers completes with it
GetTokenCached ==
  /\ sp = "get_token"
  /\ get_token(endpoints[idx], now).returns
  /\ LET ep == endpoints[idx]
     IN msg_headers' = get_headers(ep, Compression(ep), MessageType(pc), Action(pc),
                                   get_token(ep, now).token)
  /\ sp' = "post"
  /\ calls' = <<>>
  /\ UNCHANGED <<test, appsettings, endpoints, idx, pc, count, measurement, now,
                 response, http, sends, served, raised, result>>

\* get_token goes to the identity service, which answers with one of D and
\* one of T after one of L seconds
GetTokenFetch(D, T, L) ==
  /\ sp = "get_token"
  /\ ~get_token(endpoints[idx], now).returns
  /\ \E d \in D, t \in T, lat \in L :
       LET ep == endpoints[idx]
           r == FetchToken(idx, d, t, lat)
       IN /\ calls' = r.calls
          /\ now' = now + r.elapsed
          /\ endpoints' = [endpoints EXCEPT ![idx].cache = r.cache]
          /\ IF r.raised
               THEN /\ sp' = "none"
                    /\ pc' = AfterRaise(pc)
                    /\ raised' = r.error
                    /\ msg_headers' = NoHeaders
               ELSE /\ sp' = "post"
                    /\ msg_headers' = get_headers(ep, Compression(ep), MessageType(pc),
                                                  Action(pc), r.token)
                    /\ raised' = NoError
                    /\ UNCHANGED pc
  /\ UNCHANGED <<test, appsettings, idx, count, measurement, response, http, sends, served, result>>

\* no status read: every answer taken as a success
AcceptedAnyStatus(status_code) == TRUE

\* the 409 test left out
AcceptedWithout409(status_code) == ~(status_code < 200 \/ status_code >= 300)

Accepted(status_code) ==
  status_code = 409 \/ ~(status_code < 200 \/ status_code >= 300)

\* lines 101-142: the POST, answered with a status of S, and the reading of it
Post(S) ==
  /\ sp = "post"
  /\ sp' = "none"
  /\ LET ep == endpoints[idx]
     IN IF ep.EndpointType \notin {ADH, EDS, PI}
          THEN \* response is still {}: reading response.status_code raises
               /\ pc' = AfterRaise(pc)
               /\ raised' = Err("AttributeError", "status_code", "", 0, "")
               /\ UNCHANGED <<http, response>>
          ELSE \E status \in S, text \in Texts :
               IF status = 0
                 THEN \* requests.post raises (timeout, connection error)
                      /\ http' = Append(http, Request(idx, pc, ep.OmfEndpoint))
                      /\ pc' = AfterRaise(pc)
                      /\ raised' = Err("RequestException", "", "", 0, "")
                      /\ UNCHANGED response
                 ELSE /\ http' = Append(http, Request(idx, pc, ep.OmfEndpoint))
                      /\ response' = [status_code |-> status, text |-> text]
                      /\ IF Accepted(status)
                           THEN pc' = AfterSend(pc) /\ raised' = NoError
                           ELSE /\ pc' = AfterRaise(pc)
                                /\ raised' = Err("Exception", "OMF message was unsuccessful",
                                                 MessageType(pc), status, text)
  /\ UNCHANGED <<test, appsettings, endpoints, idx, count, measurement, now,
                 msg_headers, calls, sends, served, result>>

\* ------------------------------------------------------------------ main
\* the for statement without its test of Selected
ForEndpointNoSkip ==
  /\ pc = "for"
  /\ IF idx >= Len(endpoints)
       THEN /\ pc' = "done"
            /\ result' = [status |-> "returned", exc |-> "", cause |-> NoError]
            /\ UNCHANGED <<idx, http, sends>>
       ELSE /\ idx' = idx + 1
            /\ pc' = "create_type" /\ http' = <<>> /\ sends' = <<>>
            /\ UNCHANGED result
  /\ msg_headers' = NoHeaders
  /\ response' = NoResponse
  /\ raised' = NoError
  /\ calls' = <<>>
  /\ UNCHANGED <<test, appsettings, endpoints, sp, count, measurement, now, served>>

\* the for statement of main: the next endpoint, or the end of main; the
\* record of the messages starts afresh with each endpoint that is processed
ForEndpoint ==
  /\ pc = "for"
  /\ IF idx >= Len(endpoints)
       THEN /\ pc' = "done"
            /\ result' = [status |-> "returned", exc |-> "", cause |-> NoError]
            /\ UNCHANGED <<idx, http, sends>>
       ELSE /\ idx' = idx + 1
            /\ IF endpoints[idx + 1].Selected
                 THEN pc' = "create_type" /\ http' = <<>> /\ sends' = <<>>
                 ELSE pc' = "for" /\ UNCHANGED <<http, sends>>
            /\ UNCHANGED result
  /\ msg_headers' = NoHeaders
  /\ response' = NoResponse
  /\ raised' = NoError
  /\ calls' = <<>>
  /\ UNCHANGED <<test, appsettings, endpoints, sp, count, measurement, now, served>>

Settle ==
  /\ pc = "settle"
  /\ count' = 0
  /\ now' = now + SettleSeconds
  /\ pc' = "while"
  /\ msg_headers' = NoHeaders
  /\ response' = NoResponse
  /\ calls' = <<>>
  /\ UNCHANGED <<test, appsettings, endpoints, idx, sp, measurement, http, sends, served, raised, result>>

\* the test flag not read by the loop
WhileConditionIgnoreTest(c, t, iterationCount) == c = 0 \/ c < iterationCount

\* one iteration too many
WhileConditionOffByOne(c, t, iterationCount) == c = 0 \/ (~t /\ c <= iterationCount)

WhileCondition(c, t, iterationCount) == c = 0 \/ (~t /\ c < iterationCount)

While ==
  /\ pc = "while"
  /\ pc' = IF WhileCondition(count, test, appsettings.NumberOfIterations) THEN "measure"
           ELSE IF test THEN "delete_data"
           ELSE "for"
  /\ UNCHANGED <<test, appsettings, endpoints, idx, sp, count, measurement, now,
                 msg_headers, response, http, calls, sends, served, raised, result>>

\* get_random_value: str of an integer of 200..499
RandomValues == {"200", "499"}

\* get_sensor_value: what the sensor answers
SensorResponses ==
  [status_code : {200}, temperature : {"350", "35.5", "<no element>"}]
    \cup [status_code : {0, 500}, temperature : {""}]

get_sensor_value(r) ==
  IF r.status_code = 200 /\ r.temperature # "<no element>" THEN r.temperature
  ELSE ERROR_STRING

IntLiterals == {"200", "350", "499"}

\* the comparison with ERROR_STRING left out: the sentinel goes to int()
MeasureNoSentinelTest ==
  /\ pc = "measure"
  /\ IF appsettings.UseRandom
       THEN measurement' \in RandomValues
       ELSE \E r \in SensorResponses : measurement' = get_sensor_value(r)
  /\ IF measurement' \notin IntLiterals
       THEN pc' = "except" /\ raised' = Err("ValueError", measurement', "", 0, "")
       ELSE pc' = "send_value" /\ raised' = NoError
  /\ UNCHANGED <<test, appsettings, endpoints, idx, sp, count, now,
                 msg_headers, response, http, calls, sends, served, result>>

Measure ==
  /\ pc = "measure"
  /\ IF appsettings.UseRandom
       THEN measurement' \in RandomValues
       ELSE \E r \in SensorResponses : measurement' = get_sensor_value(r)
  /\ IF measurement' = ERROR_STRING
       THEN pc' = "sleep" /\ raised' = NoError
     ELSE IF measurement' \notin IntLiterals
       THEN pc' = "except" /\ raised' = Err("ValueError", measurement', "", 0, "")
     ELSE pc' = "send_value" /\ raised' = NoError
  /\ UNCHANGED <<test, appsettings, endpoints, idx, sp, count, now,
                 msg_headers, response, http, calls, sends, served, result>>

Sleep ==
  /\ pc = "sleep"
  /\ now' = now + appsettings.DelayBetweenRequests
  /\ count' = count + 1
  /\ measurement' = ""
  /\ pc' = "while"
  /\ msg_headers' = NoHeaders
  /\ response' = NoResponse
  /\ calls' = <<>>
  /\ UNCHANGED <<test, appsettings, endpoints, idx, sp, http, sends, served, raised, result>>

\* the except clause of main: in test mode one_time_send_deletes is called
\* without its argument, which raises TypeError before anything is sent
Except ==
  /\ pc = "except"
  /\ pc' = "raised"
  /\ result' = IF test
                 THEN [status |-> "raised", exc |-> "TypeError", cause |-> NoError]
                 ELSE [status |-> "raised", exc |-> "AssertionError", cause |-> raised]
  /\ msg_headers' = NoHeaders
  /\ response' = NoResponse
  /\ calls' = <<>>
  /\ UNCHANGED <<test, appsettings, endpoints, idx, sp, count, measurement, now,
                 http, sends, served, raised>>

Next ==
  \/ GetAppsettings
  \/ ForEndpoint
  \/ BeginSend
  \/ GetTokenCached
  \/ GetTokenFetch(RunDiscoveryResponses(endpoints[idx]), RunTokenResponses, RunLatency)
  \/ Post(RunStatuses)
  \/ Settle
  \/ While
  \/ Measure
  \/ Sleep
  \/ Except

Spec == Init /\ [][Next]_vars

\* ------------------------------------------------- one endpoint, its sends
\* send_message_to_omf_endpoint called for each message of main on one loaded
\* endpoint of any kind, with any state of its token cache
SendNow == 1000
CachedExpirations == {SendNow - 100, SendNow + 300, SendNow + 301, SendNow + 600}

InitSend ==
  /\ test = FALSE
  /\ appsettings = [UseRandom |-> TRUE, NumberOfIterations |-> 1, DelayBetweenRequests |-> 400]
  /\ \E t \in RawTypes, comp \in BOOLEAN,
        c \in {NoCache} \cup [has : {TRUE}, expiration : CachedExpirations, token : Tokens] :
       endpoints = <<[LoadEndpoint(RawEndpoint(1, t, TRUE, comp)) EXCEPT !.cache = c]>>
  /\ idx = 1
  /\ pc \in SendPcs
  /\ sp = "none"
  /\ count = 0
  /\ measurement = ""
  /\ now = SendNow
  /\ msg_headers = NoHeaders
  /\ response = NoResponse
  /\ http = <<>>
  /\ calls = <<>>
  /\ sends = <<>>
  /\ served = <<>>
  /\ raised = NoError
  /\ result = Running

NextSend ==
  \/ BeginSend
  \/ GetTokenCached
  \/ GetTokenFetch(DiscoveryResponses(endpoints[idx]), TokenResponses, Latency)
  \/ Post(Statuses)

SpecSend == InitSend /\ [][NextSend]_vars

\* ------------------------------------------------------------- helpers
Last(q) == q[Len(q)]

Strip(q) == [k \in DOMAIN q |-> [mtype |-> q[k].mtype, action |-> q[k].action,
                                 payload |-> q[k].payload]]

\* ----------------------------------------------------------------- claims

\* C1: token cache hit. When get_token is entered for an ADH endpoint whose
\* cache holds a token with expiration - now > 300 seconds, it returns the
\* cached token (seen in the Authorization header built from it), issues no
\* HTTP request and leaves the cached token and expiration as they were.
C1_CacheHit ==
  [][(/\ sp = "get_token"
      /\ endpoints[idx].cache.has
      /\ endpoints[idx].cache.expiration - now > 300)
     => (/\ sp' = "post"
         /\ calls' = <<>>
         /\ endpoints' = endpoints
         /\ now' = now
         /\ "Authorization" \in DOMAIN msg_headers'
         /\ msg_headers'["Authorization"] = "Bearer " \o endpoints[idx].cache.token)]_vars

C1_Witness ==
  /\ sp = "post"
  /\ endpoints[idx].EndpointType = ADH
  /\ calls = <<>>
  /\ endpoints[idx].cache.has
  /\ endpoints[idx].cache.expiration = now + 301
  /\ endpoints[idx].cache.token = "tokB"
  /\ msg_headers["Authorization"] = "Bearer tokB"

\* C2: token cache miss. When get_token is entered for an ADH endpoint with no
\* cached token or with expiration - now <= 300 and succeeds, it has issued
\* exactly one discovery GET and then exactly one token POST, the cache holds
\* the granted access_token and expiration = now + expires_in (now read after
\* the requests), the granted token is returned, and with expires_in > 300 the
\* cache then satisfies the hit condition at that time.
C2_CacheMiss ==
  [][(/\ sp = "get_token"
      /\ ~(endpoints[idx].cache.has /\ endpoints[idx].cache.expiration - now > 300)
      /\ sp' = "post")
     => (/\ Len(calls') = 2
         /\ calls'[1].kind = "discovery"
         /\ calls'[1].url = endpoints[idx].Resource
                              \o <<"identity", ".well-known", "openid-configuration">>
         /\ calls'[2].kind = "token"
         /\ endpoints'[idx].cache.has
         /\ endpoints'[idx].cache.token = calls'[2].access_token
         /\ endpoints'[idx].cache.expiration = now' + calls'[2].expires_in
         /\ msg_headers'["Authorization"] = "Bearer " \o calls'[2].access_token
         /\ (calls'[2].expires_in > 300
               => endpoints'[idx].cache.expiration - now' > 300))]_vars

C2_Witness ==
  /\ sp = "post"
  /\ Len(calls) = 2
  /\ calls[2].expires_in = 600
  /\ calls[2].access_token = "tokA"
  /\ now = SendNow + 2
  /\ endpoints[idx].cache = [has |-> TRUE, expiration |-> SendNow + 602, token |-> "tokA"]

\* C3: status mapping. Whenever an OMF POST was answered, for every endpoint
\* kind, message type and action: with status 409 or a status in [200,300) the
\* send returned normally, and with any other status it raised an error that
\* carries the message type, the status code and the response body.
C3_StatusMapping ==
  response # NoResponse =>
    IF response.status_code = 409
         \/ (response.status_code >= 200 /\ response.status_code < 300)
      THEN raised = NoError
      ELSE /\ raised.exc = "Exception"
           /\ raised.mtype = Last(sends).mtype
           /\ raised.status = response.status_code
           /\ raised.text = response.text

C3_Witness ==
  /\ response.status_code = 410
  /\ raised.status = 410
  /\ raised.mtype = "container"
  /\ Last(sends).action = "delete"
  /\ endpoints[idx].EndpointType = PI

\* C4: header allow-list. The header map get_headers returns has all its keys
\* in the allow-list, always holds messagetype, action, messageformat = JSON
\* and omfversion = 1.1, and holds compression = gzip when the body is
\* compressed: the filter drops no required header and not the compression one.
C4_HeaderAllowList ==
  sp = "post" =>
    /\ DOMAIN msg_headers \subseteq {"Authorization", "messagetype", "action",
                                     "messageformat", "omfversion", "x-requested-with",
                                     "compression"}
    /\ {"messagetype", "action", "messageformat", "omfversion"} \subseteq DOMAIN msg_headers
    /\ msg_headers["messagetype"] = Last(sends).mtype
    /\ msg_headers["action"] = Last(sends).action
    /\ msg_headers["messageformat"] = "JSON"
    /\ msg_headers["omfversion"] = "1.1"
    /\ (endpoints[idx].UseCompression
          => "compression" \in DOMAIN msg_headers /\ msg_headers["compression"] = "gzip")

C4_Witness ==
  /\ sp = "post"
  /\ endpoints[idx].EndpointType = PI
  /\ endpoints[idx].UseCompression
  /\ DOMAIN msg_headers = {"messagetype", "action", "messageformat", "omfversion",
                           "x-requested-with", "compression"}
  /\ msg_headers["action"] = "delete"

\* the three schema messages in the order of one_time_send_creates, the same
\* in the order of one_time_send_deletes, and the message of one sample
CreateOrder ==
  << [mtype |-> "type", action |-> "create", payload |-> "types"],
     [mtype |-> "container", action |-> "create", payload |-> "container"],
     [mtype |-> "data", action |-> "create", payload |-> "assets"] >>

DeleteOrder ==
  << [mtype |-> "data", action |-> "delete", payload |-> "assets"],
     [mtype |-> "container", action |-> "delete", payload |-> "container"],
     [mtype |-> "type", action |-> "delete", payload |-> "types"] >>

ValueMessage == [mtype |-> "data", action |-> "create", payload |-> "value"]

Range(q) == {q[k] : k \in DOMAIN q}

\* the part of q from its first delete message on
FromFirstDelete(q) ==
  LET D == {k \in DOMAIN q : q[k].action = "delete"}
  IN IF D = {} THEN <<>>
     ELSE SubSeq(q, CHOOSE k \in D : \A j \in D : k <= j, Len(q))

Deletes(q) == LET IsDelete(m) == m.action = "delete" IN SelectSeq(q, IsDelete)

\* C5: create ordering. For the endpoint in hand the first sends are the
\* type, the container and the static data message, once each, all with action
\* create and in that order, all three once the creates have returned; when
\* one of them raises, main is in its handler with that error and nothing was
\* sent after it.
C5_CreateOrdering ==
  LET S == Strip(sends)
      P == Strip(http)
  IN /\ IsPrefix(SubSeq(S, 1, IF Len(S) < 3 THEN Len(S) ELSE 3), CreateOrder)
     /\ IsPrefix(SubSeq(P, 1, IF Len(P) < 3 THEN Len(P) ELSE 3), CreateOrder)
     /\ \A k \in DOMAIN S : k > 3 => S[k] \notin Range(CreateOrder)
     /\ \A k \in DOMAIN sends : sends[k].ep = sends[1].ep
     /\ pc = "settle" => S = CreateOrder /\ P = CreateOrder
     /\ (S # <<>> /\ Last(S) \in Range(CreateOrder) /\ raised # NoError)
          => (pc \in {"except", "raised"} /\ sp = "none")

C5_Witness ==
  /\ pc = "except"
  /\ Strip(sends) = SubSeq(CreateOrder, 1, 2)
  /\ Len(http) = 2
  /\ raised.status = 500
  /\ raised.mtype = "container"

\* C6: delete ordering and best-effort teardown. For the endpoint in hand the
\* sends from the first delete on are data, container, type with action
\* delete, in that order, and outside one_time_send_deletes all three have
\* been attempted, whatever became of the earlier ones.
C6_DeleteOrdering ==
  LET D == FromFirstDelete(Strip(sends))
  IN /\ IsPrefix(D, DeleteOrder)
     /\ (D # <<>> /\ pc \notin DeletePcs) => D = DeleteOrder

\* the data delete failed before its POST, container and type were POSTed
C6_Witness ==
  /\ pc = "for"
  /\ FromFirstDelete(Strip(sends)) = DeleteOrder
  /\ Deletes(Strip(http)) = SubSeq(DeleteOrder, 2, 3)

\* C7: production-mode loop count, as claimed: in non-test mode, when the
\* sampling loop of a selected endpoint has ended, it has executed exactly
\* NumberOfIterations iterations, for every value including 0.
C7_LoopCount ==
  (~test /\ pc = "for" /\ idx >= 1 /\ endpoints[idx].Selected)
    => count = appsettings.NumberOfIterations

\* what the test-mode run claims of the endpoint in hand: one sample send,
\* then the three deletes in order, and a normal end of its processing (main
\* returns when it is the last endpoint)
TestModeRun ==
  LET S == Strip(sends)
      Full == CreateOrder \o <<ValueMessage>> \o DeleteOrder
  IN /\ IsPrefix(S, Full)
     /\ pc \in {"send_value", "sleep", "while", "for", "done"} \cup DeletePcs
     /\ pc \in {"for", "done"} => S = Full
     /\ pc = "done" => result.status = "returned"

\* the sample was available and sent after the creates had succeeded
SampleSent == Len(sends) >= 4 /\ Strip(sends)[4] = ValueMessage

\* the sample send raised: main is in its handler and the sample is the last
\* message sent
SampleSendRaised == pc \in {"except", "raised"} /\ Len(sends) = 4

C9_EndToEnd ==
  (/\ ~test
   /\ Len(endpoints) = 1
   /\ endpoints[1].EndpointType \in {"ADH", ADH}
   /\ endpoints[1].Selected
   /\ appsettings.UseRandom
   /\ appsettings.NumberOfIterations >= 1)
  => LET Expected == CreateOrder \o [k \in 1..appsettings.NumberOfIterations |-> ValueMessage]
     IN /\ IsPrefix(Strip(http), Expected)
        /\ IsPrefix(Strip(sends), Expected)
        /\ \A k \in DOMAIN http : http[k].ep = 1 /\ http[k].url = endpoints[1].OmfEndpoint
        /\ pc = "done" => Strip(http) = Expected /\ Len(http) = 3 + appsettings.NumberOfIterations

C9_Witness ==
  /\ ~test
  /\ Len(endpoints) = 1
  /\ endpoints[1].EndpointType = ADH
  /\ appsettings.UseRandom
  /\ appsettings.NumberOfIterations = 2
  /\ pc = "done"
  /\ Len(http) = 5

\* an endpoint configured as ADH or as OCS: its base endpoint is the ADH one
AdhConfigured(endpoint) ==
  endpoint.BaseEndpoint
    = endpoint.Resource \o <<"api", "v1", "tenants", "tenant", "namespaces", "namespace">>

\* C10: legacy alias, as claimed: an endpoint configured as OCS behaves as one
\* configured as ADH: once loaded its kind is ADH, each of its messages goes out
\* with the Authorization header of the token acquisition, and its POST is
\* issued and answered instead of the send failing on a missing response.
C10_OcsBehavesAsAdh ==
  \A i \in DOMAIN endpoints :
    (pc # "appsettings" /\ AdhConfigured(endpoints[i]))
      => /\ (idx = i /\ sp = "post") => "Authorization" \in DOMAIN msg_headers
         /\ idx = i => raised.exc # "AttributeError"

\* C11: top-level failure in test mode, as claimed: when an error has escaped
\* an endpoint's processing and the test flag is set, main has attempted the
\* deletes of data, container and type for that endpoint and then failed
\* towards its caller with the original error.
C11_TestModeFailure ==
  (test /\ pc = "raised")
    => /\ FromFirstDelete(Strip(sends)) = DeleteOrder
       /\ result.status = "raised"
       /\ result.exc = "AssertionError"
       /\ result.cause # NoError

\* C12: unavailable sample. In a loop iteration where the sample source
\* returns the sentinel 'Error', no message is sent, nothing is POSTed, no error
\* is raised and main goes to its sleep; the sleep lasts DelayBetweenRequests
\* and counts the tick; and in non-test mode the loop goes on to the next
\* sample while the count is below NumberOfIterations.
C12_UnavailableSample ==
  [][/\ (pc = "measure" /\ measurement' = "Error")
          => (/\ pc' = "sleep"
              /\ sp' = "none"
              /\ raised' = NoError
              /\ sends' = sends
              /\ http' = http
              /\ count' = count)
     /\ (pc = "sleep" /\ measurement = "Error")
          => (/\ pc' = "while"
              /\ count' = count + 1
              /\ now' = now + appsettings.DelayBetweenRequests
              /\ raised' = NoError
              /\ sends' = sends
              /\ http' = http)
     /\ (pc = "while" /\ ~test /\ count < appsettings.NumberOfIterations)
          => pc' = "measure"]_vars

\* two ticks without a sample: the run completed and sent the creates only
C12_Witness ==
  /\ ~test
  /\ ~appsettings.UseRandom
  /\ appsettings.NumberOfIterations = 2
  /\ pc = "done"
  /\ result.status = "returned"
  /\ count = 2
  /\ Strip(sends) = CreateOrder
  /\ Len(http) = 3

\* the phase a message belongs to: 1 creates, 2 sampling loop, 3 teardown
Phase(m) == IF m.action = "delete" THEN 3 ELSE IF m.payload = "value" THEN 2 ELSE 1

\* C13: endpoint selection and sequencing. Every endpoint a message was sent
\* for is selected, and the endpoints were served in strictly increasing
\* configuration order, never going back to an earlier one; a send, a token
\* request or a POST only ever concerns the selected endpoint in hand; an
\* endpoint that is not selected never gets a token cached; and the messages
\* of one endpoint go by phase: creates, then samples, then deletes.
C13_SelectionAndSequencing ==
  /\ \A k \in DOMAIN served : endpoints[served[k]].Selected
  /\ \A j, k \in DOMAIN served : j < k => served[j] < served[k]
  /\ sends # <<>> => served # <<>>
  /\ \A k \in DOMAIN sends : sends[k].ep = Last(served) /\ sends[k].ep <= idx
  /\ \A k \in DOMAIN http : http[k].ep = Last(served)
  /\ Len(http) <= Len(sends)
  /\ (sp # "none" \/ calls # <<>>)
       => (idx \in DOMAIN endpoints /\ endpoints[idx].Selected /\ Last(served) = idx)
  /\ \A i \in DOMAIN endpoints : ~endpoints[i].Selected => endpoints[i].cache = NoCache
  /\ \A j, k \in DOMAIN sends : j < k => Phase(sends[j]) <= Phase(sends[k])

\* two selected endpoints, both served through creates, sample and deletes
C13_Witness ==
  /\ test
  /\ served = <<1, 2>>
  /\ pc = "done"
  /\ Len(sends) = 7
  /\ endpoints[2].EndpointType = ADH
  /\ endpoints[1].cache.has

\* C14: token endpoint validation. Whenever get_token went to the identity
\* service, a token POST (the request that carries the client credentials) is
\* the second request, goes to the token_endpoint the discovery document
\* named, and that URL has scheme https and starts with the endpoint's
\* Resource; when the discovery succeeded and named any other token_endpoint,
\* the call failed, the discovery GET was the only request and the token cache
\* is as it was before the call.
C14_TokenEndpointValidation ==
  [][(sp = "get_token" /\ calls' # <<>>)
     => LET resource == endpoints[idx].Resource
            named == calls'[1].token_endpoint
            https_and_below_resource ==
              /\ named[1] = "https"
              /\ Len(named) >= Len(resource)
              /\ \A k \in DOMAIN resource : named[k] = resource[k]
        IN /\ calls'[1].kind = "discovery"
           /\ \A k \in DOMAIN calls' :
                calls'[k].kind = "token"
                  => (k = 2 /\ calls'[k].url = named /\ https_and_below_resource)
           /\ (calls'[1].status_code >= 200 /\ calls'[1].status_code < 300
                 /\ ~https_and_below_resource)
                => (/\ Len(calls') = 1
                    /\ raised' # NoError
                    /\ sp' = "none"
                    /\ endpoints' = endpoints)]_vars

\* the discovery named a token endpoint on another host: the call failed and
\* the expired cache entry is still there
C14_Witness ==
  /\ Len(calls) = 1
  /\ calls[1].status_code = 200
  /\ calls[1].token_endpoint = <<"https", "elsewhere", "connect", "token">>
  /\ raised.exc = "AssertionError"
  /\ sp = "none"
  /\ endpoints[idx].cache = [has |-> TRUE, expiration |-> SendNow + 300, token |-> "tokA"]

\* C15: failure isolation of one HTTP call, as claimed: when the send of a
\* data sample inside the sampling loop has failed (a rejected POST, a timeout,
\* a failed token request), main is not in its handler and has not failed:
\* the loop and the remaining endpoints go on.
C15_SampleFailureIsolated ==
  (/\ sp = "none"
   /\ sends # <<>>
   /\ Last(Strip(sends)) = ValueMessage
   /\ raised # NoError
   /\ raised.exc # "ValueError")
  => (pc \notin {"except", "raised"} /\ result.status # "raised")

\* C16: layering of delete error handling, as claimed: when a delete message
\* has failed, one_time_send_deletes has raised to its caller, so main is no
\* longer inside it.
C16_DeleteRaisesToCaller ==
  (/\ sp = "none"
   /\ sends # <<>>
   /\ Last(sends).action = "delete"
   /\ raised # NoError)
  => pc \notin DeletePcs

\* C17: conditional headers and per-kind auth. In the headers of a message
\* about to be POSTed, compression = gzip is present exactly when the
\* endpoint's UseCompression is set, Authorization = Bearer <token> exactly
\* when its kind is ADH (with the token get_token returned, the empty one
\* included), x-requested-with = xmlhttprequest exactly when its kind is PI;
\* and for an endpoint of kind EDS or PI get_token returns the empty string,
\* no request goes to the identity service and the token cache is not written.
C17_ConditionalHeaders ==
  /\ [](sp = "post" =>
          LET ep == endpoints[idx]
              h == msg_headers
          IN /\ ("compression" \in DOMAIN h) <=> ep.UseCompression
             /\ "compression" \in DOMAIN h => h["compression"] = "gzip"
             /\ ("Authorization" \in DOMAIN h) <=> (ep.EndpointType = "EndpointTypes.ADH")
             /\ "Authorization" \in DOMAIN h
                  => h["Authorization"] = "Bearer " \o ep.cache.token
             /\ ("x-requested-with" \in DOMAIN h) <=> (ep.EndpointType = "EndpointTypes.PI")
             /\ "x-requested-with" \in DOMAIN h => h["x-requested-with"] = "xmlhttprequest")
  /\ [](endpoints[idx].EndpointType \in {"EndpointTypes.EDS", "EndpointTypes.PI"}
          => /\ get_token(endpoints[idx], now) = [returns |-> TRUE, token |-> ""]
             /\ sp # "get_token"
             /\ calls = <<>>)
  /\ [][endpoints[idx].EndpointType \in {"EndpointTypes.EDS", "EndpointTypes.PI"}
          => endpoints' = endpoints]_vars

\* an ADH endpoint without compression whose granted token is the empty string
C17_Witness ==
  /\ sp = "post"
  /\ endpoints[idx].EndpointType = ADH
  /\ ~endpoints[idx].UseCompression
  /\ Len(calls) = 2
  /\ calls[2].access_token = ""
  /\ DOMAIN msg_headers = {"messagetype", "action", "messageformat", "omfversion",
                           "Authorization"}
  /\ msg_headers["Authorization"] = "Bearer "

\* C18: schema before samples. main moves past a create only when its POST
\* was answered with 409 or a status in [200,300); the sampling loop is entered
\* from the settle pause only, which lasts one second, and a sample is
\* measured and sent from inside the loop only, so after the type, container
\* and static data POSTs of the same endpoint; a create that raises takes
\* main to its handler, from where the run ends as failed with nothing more
\* sent and no further endpoint taken up.
C18_SchemaBeforeSamples ==
  /\ [][/\ (pc' # pc /\ pc' \in {"create_container", "create_data", "settle"})
             => (/\ pc \in {"create_type", "create_container", "create_data"}
                 /\ sp = "post"
                 /\ Len(http') = Len(http) + 1
                 /\ (response'.status_code = 409
                       \/ (response'.status_code >= 200 /\ response'.status_code < 300)))
        /\ (pc' = "while" /\ pc # "sleep") => (pc = "settle" /\ now' = now + 1)
        /\ (pc' # pc /\ pc' = "measure") => pc = "while"
        /\ (pc' # pc /\ pc' = "send_value") => pc = "measure"
        /\ (sends' # sends /\ sends' # <<>> /\ Last(sends').payload = "value")
             => (/\ pc = "send_value"
                 /\ Len(http) >= 3
                 /\ SubSeq(Strip(http), 1, 3) = CreateOrder
                 /\ \A k \in 1..3 : http[k].ep = idx)
        /\ (pc \in {"create_type", "create_container", "create_data"} /\ raised' # NoError)
             => pc' = "except"
        /\ pc = "except"
             => (pc' = "raised" /\ result'.status = "raised" /\ sends' = sends
                   /\ http' = http /\ idx' = idx)
        /\ pc # "raised"]_vars
  /\ [](pc = "raised" => result.status = "raised")

\* the static data create of the first of two selected endpoints was rejected:
\* the run failed, no sample went out and the second endpoint was not taken up
C18_Witness ==
  /\ ~test
  /\ Len(endpoints) = 2
  /\ endpoints[2].Selected
  /\ idx = 1
  /\ pc = "raised"
  /\ served = <<1>>
  /\ Strip(sends) = CreateOrder
  /\ raised.status = 500
  /\ raised.mtype = "data"
  /\ result.exc = "AssertionError"

\* C19: token failure is atomic. Whenever get_token fails on an ADH endpoint
\* (discovery status outside [200,300), token endpoint not valid, token
\* response that is no JSON, is null or lacks the token fields), the endpoints
\* with their cached tokens and expirations are as before the call, a failed
\* discovery is the only request made, nothing is POSTed to the OMF endpoint
\* for the message in hand and the error has left send_message_to_omf_endpoint.
C19_TokenFailureAtomic ==
  [][(sp = "get_token" /\ raised' # NoError)
     => (/\ endpoints[idx].EndpointType = "EndpointTypes.ADH"
         /\ endpoints' = endpoints
         /\ http' = http
         /\ response' = response
         /\ sp' = "none"
         /\ pc' # pc
         /\ calls' # <<>>
         /\ calls'[1].kind = "discovery"
         /\ (calls'[1].status_code < 200 \/ calls'[1].status_code >= 300)
              => Len(calls') = 1
         /\ \A k \in DOMAIN calls' : calls'[k].kind = "token" => k = 2)]_vars

\* the token response lacked the token fields: the expired entry is still in
\* the cache and the message was not POSTed
C19_Witness ==
  /\ sp = "none"
  /\ raised.exc = "KeyError"
  /\ Len(calls) = 2
  /\ calls[2].kind = "token"
  /\ endpoints[idx].cache = [has |-> TRUE, expiration |-> SendNow - 100, token |-> "tokB"]
  /\ Len(sends) = 1
  /\ http = <<>>

\* the cached token of endpoint e is good for more than 300 seconds at time t
GoodFor300(e, t) == e.cache.has /\ e.cache.expiration - t > 300

\* C20: short-lived tokens defeat the cache. A token granted with expires_in
\* <= 300 leaves a cache that does not satisfy the hit condition; time never
\* goes back, so a cache that does not satisfy it stays so until it is
\* replaced, and it is replaced by a completed token fetch only; every message
\* for an ADH endpoint enters get_token, which on such a cache goes to the
\* identity service (a discovery GET, then the token POST when it gets that
\* far): one fetch per message. Conversely a message that finds the cached
\* token good for more than 300 seconds makes no request and leaves the cache
\* alone, so no further fetch happens while that lasts.
C20_ShortLivedTokens ==
  [][/\ (sp = "get_token" /\ sp' = "post" /\ calls' # <<>> /\ calls'[2].expires_in <= 300)
          => ~GoodFor300(endpoints'[idx], now')
     /\ now' >= now
     /\ \A i \in DOMAIN endpoints :
          /\ (endpoints'[i].cache = endpoints[i].cache /\ ~GoodFor300(endpoints[i], now))
               => ~GoodFor300(endpoints'[i], now')
          /\ endpoints'[i].cache # endpoints[i].cache
               => (/\ i = idx
                   /\ sp = "get_token"
                   /\ sp' = "post"
                   /\ Len(calls') = 2
                   /\ endpoints'[i].cache.expiration = now' + calls'[2].expires_in)
     /\ (sends' # sends /\ sends' # <<>> /\ endpoints[idx].EndpointType = "EndpointTypes.ADH")
          => sp' = "get_token"
     /\ (sp = "get_token" /\ ~GoodFor300(endpoints[idx], now))
          => (/\ calls' # <<>>
              /\ calls'[1].kind = "discovery"
              /\ sp' = "post" => (Len(calls') = 2 /\ calls'[2].kind = "token"))
     /\ (sp = "get_token" /\ GoodFor300(endpoints[idx], now))
          => (calls' = <<>> /\ sp' = "post" /\ endpoints' = endpoints)]_vars

\* the first sample, the fourth message of the endpoint, goes out one second
\* after the creates on the token granted for 600 seconds during the creates
C20_Witness ==
  /\ pc = "send_value"
  /\ sp = "post"
  /\ Len(sends) = 4
  /\ calls = <<>>
  /\ now = 1
  /\ endpoints[idx].cache.expiration = 600
  /\ msg_headers["Authorization"] = "Bearer tokA"

====
